---- MODULE Spec2Model ----
(***************************************************************************)
(* cryptarch: the result store (pkg/storage) and its consumers             *)
(* (internal/lib/results.go).                                              *)
(*                                                                         *)
(* A producer per query appends Results with AddResult -> Storage.Put ->   *)
(* Results.put.  Consumers read through a ReaderIndex cursor: the lib      *)
(* display (RawDisplay) with the global readerIndexes[query], and          *)
(* independent API clients, each with a cursor of its own.                 *)
(*                                                                         *)
(* pkg/storage/storage.go (Storage, ReaderIndex) is not among the sources; *)
(* its operations are modelled from the specification's sections 4.4 and   *)
(* 4.5 and are named Storage... / ReaderIndex... below.                    *)
(***************************************************************************)
EXTENDS Integers, Sequences, FiniteSets, TLC

VARIABLES
    store,          \* lib.store: query -> storage.Results {Labels, Results}
    clock,          \* the wall clock time.Now() reads; never decreases
    readerIndexes,  \* lib.readerIndexes: query -> position of the lib's cursor
    query,          \* the query the display is showing
    dpc,            \* where the display goroutine is
    printed,        \* what RawDisplay has written with fmt.Println, in order
    readers,        \* the API clients' cursors
    seen,           \* per client, what its reads have returned to it
    config,         \* ctx "labels" and lib.Config's sink addresses
    sinks,          \* Storage's registered external sinks, in registration order
    written,        \* per sink, the writes Put has offered it, in order
    ret,            \* the last direct call of a storage function and what it returned
    displayMode,    \* Results' displayMode: the display that runs
    valueIndexes,   \* the table's valueIndexes / the graph's valueIndex
    keyboard,       \* where keyboardTermdashHandler is, and on which key
    paused          \* per query, whether its producer has been told to pause

vars == <<store, clock, readerIndexes, query, dpc, printed, readers, seen,
          config, sinks, written, ret, displayMode, valueIndexes, keyboard, paused>>

(***************************************************************************)
(* Bounds of the model.                                                    *)
(***************************************************************************)
MaxResults == 3     \* Results appended per query
MaxOther == 1       \* Results appended to the queries the display is not on
MaxFailures == 1    \* sink writes that fail
MaxLen == 3         \* characters of a text handed to a function directly
MaxKeys == 2        \* keys pressed while the displays run

Queries == <<"q1", "q2">>
Range(s) == {s[i] : i \in 1..Len(s)}
QuerySet == Range(Queries)
Clients == {"c1", "c2"}

\* Raw outputs of the query runs, as AddResult receives them: sequences of
\* characters, possibly with surrounding whitespace.  The k-th run of a query
\* prints Output(k).
RawTexts == << <<"1">>, <<"2", " ", "3">>, <<"x", " ">>, <<" ", "4", ".", "5">> >>
Output(k) == RawTexts[((k - 1) % Len(RawTexts)) + 1]

(***************************************************************************)
(* Characters.  strings.TrimSpace and the tokenizer's IsIdentRune use      *)
(* unicode.IsSpace; text/scanner skips only its own GoWhitespace set.      *)
(***************************************************************************)
\* A character is a string; "VT" and "FF" stand for U+000B and U+000C.
GoWhitespace == {" ", "\t", "\n", "\r"}
UnicodeSpace == GoWhitespace \cup {"VT", "FF"}
IsSpace(ch) == ch \in UnicodeSpace
Digits == <<"0", "1", "2", "3", "4", "5", "6", "7", "8", "9">>
IsDigit(ch) == \E i \in 1..Len(Digits) : Digits[i] = ch
DigitValue(ch) == (CHOOSE i \in 1..Len(Digits) : Digits[i] = ch) - 1

RECURSIVE TrimLeft(_)
TrimLeft(s) == IF s # <<>> /\ IsSpace(Head(s)) THEN TrimLeft(Tail(s)) ELSE s

RECURSIVE TrimRight(_)
TrimRight(s) ==
    IF s # <<>> /\ IsSpace(s[Len(s)]) THEN TrimRight(SubSeq(s, 1, Len(s) - 1)) ELSE s

\* strings.TrimSpace
TrimSpace(s) == TrimRight(TrimLeft(s))

(***************************************************************************)
(* TokenizeResult: text/scanner with IsIdentRune = not unicode.IsSpace,    *)
(* then strconv.ParseInt, strconv.ParseFloat, else the text itself.        *)
(***************************************************************************)
RECURSIVE AllDigits(_)
AllDigits(s) == s = <<>> \/ (IsDigit(Head(s)) /\ AllDigits(Tail(s)))

RECURSIVE DecimalValue(_)
DecimalValue(s) ==
    IF s = <<>> THEN 0 ELSE DecimalValue(SubSeq(s, 1, Len(s) - 1)) * 10 + DigitValue(s[Len(s)])

Unsigned(s) == IF s # <<>> /\ Head(s) \in {"+", "-"} THEN Tail(s) ELSE s

\* strconv.ParseInt(next, 10, 0) succeeds: an optional sign and one or more
\* decimal digits (the inputs of the model are far inside the int64 range).
ParsesInt(s) == Unsigned(s) # <<>> /\ AllDigits(Unsigned(s))
IntValue(s) ==
    IF s # <<>> /\ Head(s) = "-" THEN 0 - DecimalValue(Unsigned(s)) ELSE DecimalValue(Unsigned(s))

\* strconv.ParseFloat succeeds on the decimal forms the model's alphabet can
\* spell: an optional sign, digits with at most one point and at least one digit.
ParsesFloat(s) ==
    LET u == Unsigned(s)
        points == {i \in 1..Len(u) : u[i] = "."}
    IN  /\ Cardinality(points) <= 1
        /\ \E i \in 1..Len(u) : IsDigit(u[i])
        /\ \A i \in 1..Len(u) : IsDigit(u[i]) \/ u[i] = "."

Classify(next) ==
    IF ParsesInt(next) THEN [type |-> "int64", v |-> IntValue(next)]
    ELSE IF ParsesFloat(next) THEN [type |-> "float64", v |-> next]
    ELSE [type |-> "string", v |-> next]

\* The length of the identifier starting at s[1]: up to the next IsSpace rune.
RECURSIVE IdentLen(_)
IdentLen(s) == IF s = <<>> \/ IsSpace(Head(s)) THEN 0 ELSE 1 + IdentLen(Tail(s))

RECURSIVE SkipWhitespace(_)
SkipWhitespace(s) ==
    IF s # <<>> /\ Head(s) \in GoWhitespace THEN SkipWhitespace(Tail(s)) ELSE s

RECURSIVE ScanTokens(_)
ScanTokens(s) ==
    LET t == SkipWhitespace(s)
    IN  IF t = <<>> THEN <<>>
        ELSE IF ~IsSpace(Head(t))
             THEN <<SubSeq(t, 1, IdentLen(t))>> \o ScanTokens(SubSeq(t, IdentLen(t) + 1, Len(t)))
             ELSE <<SubSeq(t, 1, 1)>> \o ScanTokens(Tail(t))

\* What TokenizeResult appends to parsedResult, in order.
ParsedTokens(result) ==
    LET tokens == ScanTokens(result)
    IN  [i \in 1..Len(tokens) |-> Classify(tokens[i])]

(***************************************************************************)
(* storage.Result and storage.Results.                                     *)
(***************************************************************************)
ZeroTime == 0

\* A Values slice: Go tells the nil slice from an allocated slice of length 0
\* (reflect.DeepEqual does), so a slice is its elements and whether it is
\* allocated.  NilValues is the zero value.
NilValues == [alloc |-> FALSE, elems |-> <<>>]
MakeValues(elems) == [alloc |-> TRUE, elems |-> elems]

\* The slice that append builds from nil, and the one a variadic call
\* f(x1, ..., xn) receives: nil when there is no element.
AppendAll(elems) == IF elems = <<>> THEN NilValues ELSE MakeValues(elems)

\* Result{}
EmptyResult == [Time |-> ZeroTime, Value |-> <<>>, Values |-> NilValues]

\* A slip in IsEmpty: the test is inverted.
IsNotEmpty(r) == r # EmptyResult

\* Result.IsEmpty: reflect.DeepEqual(*r, Result{})
IsEmpty(r) == r = EmptyResult

\* What a call that indexes a slice can come to: a value, the nil interface,
\* or the runtime panic "index out of range".  Indexes count from 0 as in Go.
Panic == [kind |-> "panic"]
Absent == [kind |-> "nil"]
Returned(v) == [kind |-> "value", v |-> v]
InRange(index, s) == 0 <= index /\ index < Len(s)
At(s, index) == s[index + 1]

\* A slip in Values.Get: the test lets the length itself through.
ValuesGetAtLength(v, index) ==
    IF Len(v.elems) >= index
    THEN IF InRange(index, v.elems) THEN Returned(At(v.elems, index)) ELSE Panic
    ELSE Absent

\* Values.Get: if len(v) > index { result = v[index] }
ValuesGet(v, index) ==
    IF Len(v.elems) > index
    THEN IF InRange(index, v.elems) THEN Returned(At(v.elems, index)) ELSE Panic
    ELSE Absent

\* A slip in Result.Map: a label that is already a key keeps its value.
MapFirstWins(r, labels) ==
    IF Len(r.Values.elems) > Len(labels) THEN Panic
    ELSE Returned([l \in {labels[i] : i \in 1..Len(r.Values.elems)} |->
            LET first == CHOOSE i \in 1..Len(r.Values.elems) :
                            /\ labels[i] = l
                            /\ \A j \in 1..(i - 1) : labels[j] # l
            IN  r.Values.elems[first]])

\* Result.Map: resultMap[labels[i]] = value for i, value in r.Values, in
\* order, so a later value replaces an earlier one under the same label;
\* labels[i] is out of range when the labels are fewer than the values.
Map(r, labels) ==
    IF Len(r.Values.elems) > Len(labels) THEN Panic
    ELSE Returned([l \in {labels[i] : i \in 1..Len(r.Values.elems)} |->
            LET last == CHOOSE i \in 1..Len(r.Values.elems) :
                            /\ labels[i] = l
                            /\ \A j \in (i + 1)..Len(r.Values.elems) : labels[j] # l
            IN  r.Values.elems[last]])

\* The not-found sentinel of slices.Index.
NotFound == 0 - 1

\* A slip in the lookup: the last position of filter.
getValueIndexLast(r, filter) ==
    IF \E i \in 1..Len(r.Labels) : r.Labels[i] = filter
    THEN (CHOOSE i \in 1..Len(r.Labels) :
            r.Labels[i] = filter /\ \A j \in (i + 1)..Len(r.Labels) : r.Labels[j] # filter) - 1
    ELSE NotFound

\* Results.getValueIndex: slices.Index(r.Labels, filter), the first position
\* of filter, or -1.
getValueIndex(r, filter) ==
    IF \E i \in 1..Len(r.Labels) : r.Labels[i] = filter
    THEN (CHOOSE i \in 1..Len(r.Labels) :
            r.Labels[i] = filter /\ \A j \in 1..(i - 1) : r.Labels[j] # filter) - 1
    ELSE NotFound

\* FilterSlice (from the specification, 4.5): source[indexes[0]],
\* source[indexes[1]], ... in the given order; it returns the slice alone
\* (results.go 94, 456), and indexing source outside its range is Go's
\* runtime panic, which is what the specification's section 9 warns of.
FilterSlice(source, indexes) ==
    IF \E i \in 1..Len(indexes) : ~InRange(indexes[i], source) THEN Panic
    ELSE Returned([i \in 1..Len(indexes) |-> At(source, indexes[i])])

newResults == [Labels |-> <<>>, Results |-> <<>>]

\* A slip in put: the new Result goes in front of the series.
putPrepend(r, now, value, values) ==
    [r EXCEPT !.Results = <<[Time |-> now, Value |-> value, Values |-> values]>> \o @]

\* TokenizeResult: parsedResult starts nil and grows by append.
TokenizeResult(result) == AppendAll(ParsedTokens(result))

\* Results.put: next, the Result that put builds and returns.
putNext(now, value, values) == [Time |-> now, Value |-> value, Values |-> values]

\* Results.put: appends Result{time.Now(), value, values}.
put(r, now, value, values) ==
    [r EXCEPT !.Results = Append(@, putNext(now, value, values))]

\* A slip in get: the scan does not stop at the first match.
RECURSIVE getLast(_, _)
getLast(r, t) ==
    IF r.Results = <<>> THEN EmptyResult
    ELSE LET n == Len(r.Results)
         IN  IF r.Results[n].Time = t THEN r.Results[n]
             ELSE getLast([r EXCEPT !.Results = SubSeq(@, 1, n - 1)], t)

\* Results.get: the first Result whose Time compares equal, else Result{}.
RECURSIVE get(_, _)
get(r, t) ==
    IF r.Results = <<>> THEN EmptyResult
    ELSE IF Head(r.Results).Time = t THEN Head(r.Results)
    ELSE get([r EXCEPT !.Results = Tail(@)], t)

\* A slip in getRange: the end of the range is left out.
RECURSIVE getRangeOpenEnd(_, _, _)
getRangeOpenEnd(r, startTime, endTime) ==
    IF r.Results = <<>> THEN <<>>
    ELSE LET result == Head(r.Results)
             rest == [r EXCEPT !.Results = Tail(@)]
         IN  IF result.Time >= startTime
             THEN IF result.Time >= endTime THEN <<>>
                  ELSE <<result>> \o getRangeOpenEnd(rest, startTime, endTime)
             ELSE getRangeOpenEnd(rest, startTime, endTime)

\* Results.getRange: scans in order, collects the Results at or after
\* startTime, and breaks at the first of them that is after endTime.
RECURSIVE getRange(_, _, _)
getRange(r, startTime, endTime) ==
    IF r.Results = <<>> THEN <<>>
    ELSE LET result == Head(r.Results)
             rest == [r EXCEPT !.Results = Tail(@)]
         IN  IF result.Time >= startTime
             THEN IF result.Time > endTime THEN <<>>
                  ELSE <<result>> \o getRange(rest, startTime, endTime)
             ELSE getRange(rest, startTime, endTime)

(***************************************************************************)
(* normalizeString (from the specification, 4.2; its tests are in          *)
(* external_test.go): every character outside [A-Za-z0-9_] becomes "_",    *)
(* runs of "_" collapse into one, leading and trailing "_" are trimmed.    *)
(***************************************************************************)
\* The characters of [A-Za-z0-9_] that the model's labels can spell.
Alnum == {"a", "b", "e", "f", "o", "r", "s", "t", "1", "2"}
WordChars == Alnum \cup {"_"}

ReplaceNonWord(s) == [i \in 1..Len(s) |-> IF s[i] \in WordChars THEN s[i] ELSE "_"]

RECURSIVE CollapseUnderscores(_)
CollapseUnderscores(s) ==
    IF Len(s) < 2 THEN s
    ELSE IF s[1] = "_" /\ s[2] = "_" THEN CollapseUnderscores(Tail(s))
    ELSE <<s[1]>> \o CollapseUnderscores(Tail(s))

RECURSIVE TrimUnderscores(_)
TrimUnderscores(s) ==
    IF s # <<>> /\ s[1] = "_" THEN TrimUnderscores(Tail(s))
    ELSE IF s # <<>> /\ s[Len(s)] = "_" THEN TrimUnderscores(SubSeq(s, 1, Len(s) - 1))
    ELSE s

\* A slip in normalizeString: the trim comes first, before the replacement
\* has made the underscores it should remove.
normalizeStringTrimFirst(s) == CollapseUnderscores(ReplaceNonWord(TrimUnderscores(s)))

\* A slip in normalizeString: runs of "_" are left as they are.
normalizeStringNoCollapse(s) == TrimUnderscores(ReplaceNonWord(s))

normalizeString(s) == TrimUnderscores(CollapseUnderscores(ReplaceNonWord(s)))

(***************************************************************************)
(* Storage and ReaderIndex (from the specification, 4.4 and 4.5).          *)
(***************************************************************************)
Series(q) == store[q].Results

\* Storage.Put: appends to the query's series (sinks: none registered).
StoragePut(q, now, value, values) == [store EXCEPT ![q] = put(@, now, value, values)]

\* Storage.NewReaderIndex
StorageNewReaderIndex(q) == 0

\* Storage.Next does not suspend exactly when the cursor is behind the series.
StorageNextReady(q, position) == position < Len(Series(q))

\* Storage.Next, once it does not suspend.
StorageNext(q, position) ==
    [result |-> Series(q)[position + 1], position |-> position + 1]

\* Storage.NextOrEmpty
StorageNextOrEmpty(q, position) ==
    IF position < Len(Series(q))
    THEN [result |-> Series(q)[position + 1], position |-> position + 1]
    ELSE [result |-> EmptyResult, position |-> position]

\* Storage.GetToIndex
StorageGetToIndex(q, position) == SubSeq(Series(q), 1, position)

\* ReaderIndex.Dec
ReaderIndexDec(position) == IF position > 0 THEN position - 1 ELSE 0

\* Storage.PutLabels: sets the labels of the query's series.
StoragePutLabels(q, labels) == [store EXCEPT ![q].Labels = labels]

\* The external sinks lib.Results knows: Pushgateway and Prometheus.
SinkNames == {"pushgateway", "prometheus"}

\* Storage.AddExternalStorage: registers the sink after those registered.
StorageAddExternalStorage(registered, sink) == Append(registered, sink)

\* Storage.Put, the replication: every registered sink, in registration
\* order, is offered the stored Result once; the write of a sink in failing
\* fails, which is logged and changes nothing else.
RECURSIVE StorageReplicate(_, _, _, _, _)
StorageReplicate(w, registered, q, result, failing) ==
    IF registered = <<>> THEN w
    ELSE StorageReplicate(
            [w EXCEPT ![Head(registered)] =
                Append(@, [query |-> q, result |-> result, ok |-> Head(registered) \notin failing])],
            Tail(registered), q, result, failing)

\* The sink writes that have failed so far.
FailedWrites ==
    UNION {{<<sink, i>> : i \in {j \in 1..Len(written[sink]) : ~written[sink][j].ok}} :
              sink \in SinkNames}


(***************************************************************************)
(* internal/lib: the producer side and the read wrappers.                  *)
(***************************************************************************)
StartTime == 1

\* The display stays on the first query in raw mode (main.go starts it there);
\* the other queries are bounded more tightly.
Bound(q) == IF q = Queries[1] THEN MaxResults ELSE MaxOther

\* GetResult with the cursor of whichever other query: a slip in the lookup.
GetResultOtherReader(q) ==
    LET other == CHOOSE o \in QuerySet : o # q
    IN  StorageNext(q, readerIndexes[other])

\* GetResult: store.Next(query, readerIndexes[query])
GetResult(q) == StorageNext(q, readerIndexes[q])

\* GetResult returns without suspending.
GetResultReady(q) == StorageNextReady(q, readerIndexes[q])

\* One round of GetResultWait's loop: store.NextOrEmpty(query, readerIndexes[query]).
GetResultWaitRound(q) == StorageNextOrEmpty(q, readerIndexes[q])

\* What a client has seen: mode "new" for a cursor nothing was read from yet
\* (born: the length of the series when it was created), "tail" for a cursor
\* that was only read with Next/NextOrEmpty since, "replay" once GetToIndex
\* redrew the client's view, "none" once Dec moved the cursor back.  results
\* is the client's view: the replay, then every non-empty Result read, in order.
NewSeen(n) == [mode |-> "new", born |-> n, results |-> <<>>]
NoSeen == [mode |-> "none", born |-> 0, results |-> <<>>]
ReplaySeen(results) == [mode |-> "replay", born |-> 0, results |-> results]

\* main.go: no labels unless -v gives some, no filters unless -f gives some,
\* and a Config with LogLevel only, so neither sink address is set.
DefaultConfig ==
    [labels |-> <<>>, filters |-> <<>>, PushgatewayAddr |-> "", PrometheusExporterAddr |-> ""]

\* The keyboard handler is not running.
Idle == [pc |-> "idle", key |-> "none", presses |-> 0]

\* No direct call of a storage function yet.
NoCall == [op |-> "none"]

\* Everything but the configuration, before Results runs.
Start ==
    /\ store = [q \in QuerySet |-> newResults]
    /\ clock = StartTime
    /\ readerIndexes = [q \in {} |-> 0]
    /\ query = Queries[1]
    /\ dpc = "init"
    /\ printed = <<>>
    /\ readers = [c \in {} |-> 0]
    /\ seen = [c \in Clients |-> NoSeen]
    /\ sinks = <<>>
    /\ written = [sink \in SinkNames |-> <<>>]
    /\ ret = NoCall
    /\ valueIndexes = <<>>
    /\ keyboard = Idle
    /\ paused = [q \in QuerySet |-> FALSE]

\* main.go: -r defaults to the raw display.
Init == Start /\ config = DefaultConfig /\ displayMode = "raw"

\* What AddResult hands to Put for each raw text: strings.TrimSpace(result),
\* and TokenizeResult of that.
Stored ==
    [k \in 1..Len(RawTexts) |->
        LET value == TrimSpace(RawTexts[k])
        IN  [Value |-> value, Values |-> TokenizeResult(value)]]

\* A slip in the producer: it stops while the display is paused.
AddResultStopsWithDisplay(q, result, now) ==
    /\ dpc # "paused"
    /\ ~paused[q]
    /\ Len(Series(q)) < Bound(q)
    /\ result = Output(Len(Series(q)) + 1)
    /\ now >= clock
    /\ clock' = now
    /\ \E k \in 1..Len(RawTexts) :
          /\ result = RawTexts[k]
          /\ store' = StoragePut(q, now, Stored[k].Value, Stored[k].Values)
          /\ \E failing \in SUBSET Range(sinks) :
                /\ Cardinality(FailedWrites) + Cardinality(failing) <= MaxFailures
                /\ written' = StorageReplicate(written, sinks, q,
                                  putNext(now, Stored[k].Value, Stored[k].Values), failing)
    /\ UNCHANGED <<readerIndexes, query, dpc, printed, readers, seen, config,
                   displayMode, valueIndexes, keyboard, paused, sinks, ret>>

\* A slip in the producer: the put waits until the display has caught up.
AddResultWaitsForDisplay(q, result, now) ==
    /\ dpc = "tail" => readerIndexes[q] = Len(Series(q))
    /\ ~paused[q]
    /\ Len(Series(q)) < Bound(q)
    /\ result = Output(Len(Series(q)) + 1)
    /\ now >= clock
    /\ clock' = now
    /\ \E k \in 1..Len(RawTexts) :
          /\ result = RawTexts[k]
          /\ store' = StoragePut(q, now, Stored[k].Value, Stored[k].Values)
    /\ UNCHANGED <<readerIndexes, query, dpc, printed, readers, seen, config,
                   displayMode, valueIndexes, keyboard, paused, sinks, written,
                   ret>>

\* A slip in the producer: a failed sink write fails the put, so the Result
\* is not stored.
AddResultFailsWithSink(q, result, now) ==
    /\ ~paused[q]
    /\ Len(Series(q)) < Bound(q)
    /\ result = Output(Len(Series(q)) + 1)
    /\ now >= clock
    /\ clock' = now
    /\ \E k \in 1..Len(RawTexts) :
          /\ result = RawTexts[k]
          /\ \E failing \in SUBSET Range(sinks) :
                /\ Cardinality(FailedWrites) + Cardinality(failing) <= MaxFailures
                /\ store' = IF failing = {} THEN StoragePut(q, now, Stored[k].Value, Stored[k].Values)
                            ELSE store
                /\ written' = StorageReplicate(written, sinks, q,
                                  putNext(now, Stored[k].Value, Stored[k].Values), failing)
    /\ UNCHANGED <<readerIndexes, query, dpc, printed, readers, seen, config,
                   displayMode, valueIndexes, keyboard, paused, sinks, ret>>

\* A run of the query's producer ending in AddResult(query, result, history),
\* which trims the text, tokenizes it and puts it.  now is what time.Now()
\* reads inside put: the clock does not go back.  A producer that has been
\* told to pause runs nothing until it is told again.
AddResult(q, result, now) ==
    /\ ~paused[q]
    /\ Len(Series(q)) < Bound(q)
    /\ result = Output(Len(Series(q)) + 1)
    /\ now >= clock
    /\ clock' = now
    /\ \E k \in 1..Len(RawTexts) :
          /\ result = RawTexts[k]
          /\ store' = StoragePut(q, now, Stored[k].Value, Stored[k].Values)
          /\ \E failing \in SUBSET Range(sinks) :
                /\ Cardinality(FailedWrites) + Cardinality(failing) <= MaxFailures
                /\ written' = StorageReplicate(written, sinks, q,
                                  putNext(now, Stored[k].Value, Stored[k].Values), failing)
    /\ UNCHANGED <<readerIndexes, query, dpc, printed, readers, seen, config,
                   displayMode, valueIndexes, keyboard, paused, sinks, ret>>

(***************************************************************************)
(* The lib display: Results, then RawDisplay(query).                       *)
(***************************************************************************)
\* Results, up to the display: the sinks whose address is configured are
\* registered (Pushgateway first), readerIndexes[query] =
\* store.NewReaderIndex(query) for every query, and the labels, if any were
\* given, are put on the query shown.
\* A slip in Results: the Pushgateway sink is registered for either address.
ResultsInitPushgatewayTwice ==
    /\ dpc = "init"
    /\ sinks' = sinks
            \o (IF config.PushgatewayAddr # "" THEN <<"pushgateway">> ELSE <<>>)
            \o (IF config.PrometheusExporterAddr # "" THEN <<"pushgateway">> ELSE <<>>)
    /\ readerIndexes' = [q \in QuerySet |-> StorageNewReaderIndex(q)]
    /\ store' = IF Len(config.labels) > 0 THEN StoragePutLabels(query, config.labels) ELSE store
    /\ dpc' = "wait"
    /\ UNCHANGED <<clock, query, printed, readers, seen, config, displayMode,
                   valueIndexes, keyboard, paused, written, ret>>

ResultsInit ==
    /\ dpc = "init"
    /\ sinks' = LET first == IF config.PushgatewayAddr # ""
                             THEN StorageAddExternalStorage(sinks, "pushgateway") ELSE sinks
                IN  IF config.PrometheusExporterAddr # ""
                    THEN StorageAddExternalStorage(first, "prometheus") ELSE first
    /\ readerIndexes' = [q \in QuerySet |-> StorageNewReaderIndex(q)]
    /\ store' = IF Len(config.labels) > 0 THEN StoragePutLabels(query, config.labels) ELSE store
    /\ dpc' = "wait"
    /\ UNCHANGED <<clock, query, printed, readers, seen, config, displayMode,
                   valueIndexes, keyboard, paused, written, ret>>

\* A slip in the wait: the cursor is advanced by every poll, empty or not.
RawDisplayWaitCountsPolls ==
    /\ dpc = "wait"
    /\ LET r == GetResultWaitRound(query)
       IN  /\ readerIndexes' = [readerIndexes EXCEPT ![query] = @ + 1]
           /\ dpc' = IF IsEmpty(r.result) THEN "wait" ELSE "dec"
    /\ UNCHANGED <<store, clock, query, printed, readers, seen, config, displayMode,
                   valueIndexes, keyboard, paused, sinks, written, ret>>

\* RawDisplay: GetResultWait(query), one round of its loop; an empty Result
\* sleeps and polls again, a non-empty one ends the wait.
RawDisplayWait ==
    /\ dpc = "wait"
    /\ LET r == GetResultWaitRound(query)
       IN  /\ readerIndexes' = [readerIndexes EXCEPT ![query] = r.position]
           /\ dpc' = IF IsEmpty(r.result) THEN "wait" ELSE "dec"
    /\ UNCHANGED <<store, clock, query, printed, readers, seen, config, displayMode,
                   valueIndexes, keyboard, paused, sinks, written, ret>>

\* A slip in RawDisplay: the synchronisation read is not taken back.
RawDisplayNoDec ==
    /\ dpc = "dec"
    /\ dpc' = "replay"
    /\ UNCHANGED <<store, clock, readerIndexes, query, printed, readers, seen, config,
                   displayMode, valueIndexes, keyboard, paused, sinks, written,
                   ret>>

\* RawDisplay: reader.Dec()
RawDisplayDec ==
    /\ dpc = "dec"
    /\ readerIndexes' = [readerIndexes EXCEPT ![query] = ReaderIndexDec(@)]
    /\ dpc' = "replay"
    /\ UNCHANGED <<store, clock, query, printed, readers, seen, config, displayMode,
                   valueIndexes, keyboard, paused, sinks, written, ret>>

\* A slip in RawDisplay: the replay prints the whole series, not the part
\* up to the cursor.
RawDisplayReplayAll ==
    /\ dpc = "replay"
    /\ printed' = printed \o Series(query)
    /\ dpc' = "tail"
    /\ UNCHANGED <<store, clock, readerIndexes, query, readers, seen, config,
                   displayMode, valueIndexes, keyboard, paused, sinks, written,
                   ret>>

\* RawDisplay: prints every Result of store.GetToIndex(query, reader).
RawDisplayReplay ==
    /\ dpc = "replay"
    /\ printed' = printed \o StorageGetToIndex(query, readerIndexes[query])
    /\ dpc' = "tail"
    /\ UNCHANGED <<store, clock, readerIndexes, query, readers, seen, config,
                   displayMode, valueIndexes, keyboard, paused, sinks, written,
                   ret>>

\* A slip in the lib: one cursor for all the queries, moved by every read.
RawDisplayNextSharedCursor ==
    /\ dpc = "tail"
    /\ GetResultReady(query)
    /\ LET r == GetResult(query)
       IN  /\ readerIndexes' = [q \in DOMAIN readerIndexes |-> r.position]
           /\ printed' = Append(printed, r.result)
    /\ UNCHANGED <<store, clock, query, dpc, readers, seen, config, displayMode,
                   valueIndexes, keyboard, paused, sinks, written, ret>>

\* RawDisplay: for { fmt.Println(GetResult(query)) }; GetResult is suspended
\* while the cursor is at the end of the series.
RawDisplayNext ==
    /\ dpc = "tail"
    /\ GetResultReady(query)
    /\ LET r == GetResult(query)
       IN  /\ readerIndexes' = [readerIndexes EXCEPT ![query] = r.position]
           /\ printed' = Append(printed, r.result)
    /\ UNCHANGED <<store, clock, query, dpc, readers, seen, config, displayMode,
                   valueIndexes, keyboard, paused, sinks, written, ret>>

(***************************************************************************)
(* The API clients: each owns one cursor and calls the read operations in  *)
(* any order.                                                              *)
(***************************************************************************)
HasReader(c) == c \in DOMAIN readers
SetReader(c, q, position) ==
    [d \in (DOMAIN readers) \cup {c} |->
        IF d = c THEN [query |-> q, position |-> position] ELSE readers[d]]
\* The cursor of client c moves to position.
Moved(c, position) == [readers EXCEPT ![c].position = position]

\* The client's view after a read returned result: callers tell "no data"
\* from an observation with IsEmpty.
Got(c, result) ==
    IF seen[c].mode = "none" \/ IsEmpty(result)
    THEN seen
    ELSE [seen EXCEPT ![c] = [mode |-> IF @.mode = "new" THEN "tail" ELSE @.mode,
                              born |-> 0,
                              results |-> Append(@.results, result)]]

ClientNewReaderIndex(c, q) ==
    /\ readers' = SetReader(c, q, StorageNewReaderIndex(q))
    /\ seen' = [seen EXCEPT ![c] = NewSeen(Len(Series(q)))]
    /\ UNCHANGED <<store, clock, readerIndexes, query, dpc, printed, config,
                   displayMode, valueIndexes, keyboard, paused, sinks, written,
                   ret>>

\* Next: the caller is suspended while the cursor is at the end of the series,
\* and returns once it is behind it.
ClientNext(c) ==
    /\ HasReader(c)
    /\ StorageNextReady(readers[c].query, readers[c].position)
    /\ LET r == StorageNext(readers[c].query, readers[c].position)
       IN  /\ readers' = Moved(c, r.position)
           /\ seen' = Got(c, r.result)
    /\ UNCHANGED <<store, clock, readerIndexes, query, dpc, printed, config,
                   displayMode, valueIndexes, keyboard, paused, sinks, written,
                   ret>>

ClientNextOrEmpty(c) ==
    /\ HasReader(c)
    /\ LET r == StorageNextOrEmpty(readers[c].query, readers[c].position)
       IN  /\ readers' = Moved(c, r.position)
           /\ seen' = Got(c, r.result)
    /\ UNCHANGED <<store, clock, readerIndexes, query, dpc, printed, config,
                   displayMode, valueIndexes, keyboard, paused, sinks, written,
                   ret>>

\* GetToIndex: the client redraws its view from the replay.
ClientGetToIndex(c) ==
    /\ HasReader(c)
    /\ seen' = [seen EXCEPT ![c] =
                  ReplaySeen(StorageGetToIndex(readers[c].query, readers[c].position))]
    /\ UNCHANGED <<store, clock, readerIndexes, query, dpc, printed, readers, config,
                   displayMode, valueIndexes, keyboard, paused, sinks, written,
                   ret>>

\* Dec: what the client reads from here on repeats what it has seen.
ClientDec(c) ==
    /\ HasReader(c)
    /\ readers' = Moved(c, ReaderIndexDec(readers[c].position))
    /\ seen' = [seen EXCEPT ![c] = NoSeen]
    /\ UNCHANGED <<store, clock, readerIndexes, query, dpc, printed, config,
                   displayMode, valueIndexes, keyboard, paused, sinks, written,
                   ret>>

\* Every put reads a later instant than the one before it.
Next ==
    \/ \E q \in QuerySet, result \in Range(RawTexts) : AddResult(q, result, clock + 1)
    \/ ResultsInit
    \/ RawDisplayWait
    \/ RawDisplayDec
    \/ RawDisplayReplay
    \/ RawDisplayNext
    \/ \E c \in Clients, q \in QuerySet : ClientNewReaderIndex(c, q)
    \/ \E c \in Clients : ClientNext(c)
    \/ \E c \in Clients : ClientNextOrEmpty(c)
    \/ \E c \in Clients : ClientGetToIndex(c)
    \/ \E c \in Clients : ClientDec(c)

Spec == Init /\ [][Next]_vars

\* The Go scheduler keeps running a goroutine that can run: the display's
\* GetResult returns once its cursor is behind the series.
FairSpec == Spec /\ WF_vars(RawDisplayNext)

(***************************************************************************)
(* The program started with labels (-v) and with sink addresses: the       *)
(* producers and the display, every configuration.                         *)
(***************************************************************************)
LabelSets == {<<>>, <<"a">>, <<"a", "b">>}
Addrs == {"", "localhost:9091"}

ConfiguredInit ==
    /\ Start
    /\ config \in [labels : LabelSets, filters : {<<>>},
                    PushgatewayAddr : Addrs, PrometheusExporterAddr : Addrs]
    /\ displayMode = "raw"

ConfiguredNext ==
    \/ \E q \in QuerySet, result \in Range(RawTexts) : AddResult(q, result, clock + 1)
    \/ ResultsInit
    \/ RawDisplayWait
    \/ RawDisplayDec
    \/ RawDisplayReplay
    \/ RawDisplayNext

ConfiguredSpec == ConfiguredInit /\ [][ConfiguredNext]_vars

(***************************************************************************)
(* The series of one query called directly, as the package's tests call    *)
(* it: put, get and getRange, with the clock moving freely between puts.   *)
(***************************************************************************)
\* The arguments of the direct puts, in turn: a raw text and its tokens
\* (TestResultsPut).
PutArgs ==
    << [value |-> <<"f">>, tokens |-> <<>>],
       [value |-> <<"f", "z">>,
        tokens |-> <<[type |-> "string", v |-> <<"f", "z">>], [type |-> "int64", v |-> 3]>>] >>

\* results.put(value, tokens...)
ResultsPut(q, now, value, tokens) ==
    /\ Len(Series(q)) < Bound(q)
    /\ now >= clock
    /\ clock' = now
    /\ store' = [store EXCEPT ![q] = put(@, now, value, AppendAll(tokens))]
    /\ ret' = [op |-> "put", value |-> value, tokens |-> tokens,
               result |-> putNext(now, value, AppendAll(tokens))]
    /\ UNCHANGED <<readerIndexes, query, dpc, printed, readers, seen, config,
                   displayMode, valueIndexes, keyboard, paused, sinks, written>>

\* results.get(t)
ResultsGet(q, t) ==
    /\ ret' = [op |-> "get", time |-> t, result |-> get(store[q], t)]
    /\ UNCHANGED <<store, clock, readerIndexes, query, dpc, printed, readers, seen,
                   config, displayMode, valueIndexes, keyboard, paused, sinks,
                   written>>

\* results.getRange(startTime, endTime)
ResultsGetRange(q, startTime, endTime) ==
    /\ ret' = [op |-> "getRange", startTime |-> startTime, endTime |-> endTime,
               found |-> getRange(store[q], startTime, endTime)]
    /\ UNCHANGED <<store, clock, readerIndexes, query, dpc, printed, readers, seen,
                   config, displayMode, valueIndexes, keyboard, paused, sinks,
                   written>>

\* The instants a caller may ask for: from the zero time to after the clock.
Instants == ZeroTime..(clock + 1)

\* How far the clock has moved when the next direct put reads it: not at
\* all, or past one instant or two.
Ticks == {0, 1, 2}

ResultsNext ==
    \/ \E tick \in Ticks :
            LET args == PutArgs[(Len(Series(Queries[1])) % Len(PutArgs)) + 1]
            IN  ResultsPut(Queries[1], clock + tick, args.value, args.tokens)
    \/ \E t \in Instants : ResultsGet(Queries[1], t)
    \/ \E startTime, endTime \in Instants : ResultsGetRange(Queries[1], startTime, endTime)

ResultsSpec == Init /\ [][ResultsNext]_vars

(***************************************************************************)
(* The stream, table and graph displays with the keyboard: Tab and n       *)
(* interrupt the display, Space pauses the display and then the query.     *)
(* A display runs GetResultWait and reader.Dec, resolves its filters,      *)
(* replays, and then loops over                                            *)
(*     select { case <-interruptChan: return                               *)
(*              case <-pauseDisplayChan: <-pauseDisplayChan                *)
(*              default: ... GetResult(query) ... }                        *)
(* Both channels are unbuffered: a send waits for its receive.             *)
(***************************************************************************)
DisplayModes == <<"stream", "table", "graph">>
Keys == {"Tab", "n", "Space"}

\* GetNextSliceRing (from its use in Results): the element after current,
\* the first one after the last.
GetNextSliceRing(ring, current) ==
    LET i == CHOOSE j \in 1..Len(ring) : ring[j] = current
    IN  ring[(i % Len(ring)) + 1]

\* Storage.GetValueIndex (from the specification, 4.5): delegates to
\* getValueIndex of the query's series.
StorageGetValueIndex(q, filter) == getValueIndex(store[q], filter)

\* What a display draws for a Result: the stream its text, the table the
\* values at valueIndexes, the graph the value at valueIndex.
Shown(mode, result, indexes) ==
    IF mode = "stream" THEN Returned(result.Value)
    ELSE IF mode = "table" THEN FilterSlice(result.Values.elems, indexes)
    ELSE ValuesGet(result.Values, indexes[1])

ShownAll(mode, results, indexes) == [i \in 1..Len(results) |-> Shown(mode, results[i], indexes)]
Panics(shown) == \E i \in 1..Len(shown) : shown[i] = Panic

\* GetResultWait(query), one round of its loop.
DisplayWait ==
    /\ dpc = "wait"
    /\ displayMode # "raw"
    /\ LET r == GetResultWaitRound(query)
       IN  /\ readerIndexes' = [readerIndexes EXCEPT ![query] = r.position]
           /\ dpc' = IF IsEmpty(r.result) THEN "wait" ELSE "dec"
    /\ UNCHANGED <<store, clock, query, printed, readers, seen, config, sinks, written,
                   ret, displayMode, valueIndexes, keyboard, paused>>

\* A slip in the synchronization: the cursor is not stepped back.
DisplayDecSkipped ==
    /\ dpc = "dec"
    /\ displayMode # "raw"
    /\ dpc' = "resolve"
    /\ UNCHANGED <<store, clock, readerIndexes, query, printed, readers, seen, config, sinks,
                   written, ret, displayMode, valueIndexes, keyboard, paused>>

\* reader.Dec()
DisplayDec ==
    /\ dpc = "dec"
    /\ displayMode # "raw"
    /\ readerIndexes' = [readerIndexes EXCEPT ![query] = ReaderIndexDec(@)]
    /\ dpc' = "resolve"
    /\ UNCHANGED <<store, clock, query, printed, readers, seen, config, sinks, written,
                   ret, displayMode, valueIndexes, keyboard, paused>>

\* StreamDisplay: nothing to resolve; the labels are the first line.
StreamDisplayStart ==
    /\ dpc = "resolve"
    /\ displayMode = "stream"
    /\ dpc' = "replay"
    /\ UNCHANGED <<store, clock, readerIndexes, query, printed, readers, seen, config,
                   sinks, written, ret, displayMode, valueIndexes, keyboard, paused>>

\* TableDisplay: valueIndexes gets store.GetValueIndex(query, filter) for
\* every filter, and the header row is FilterSlice(labels, valueIndexes).
TableDisplayResolve ==
    /\ dpc = "resolve"
    /\ displayMode = "table"
    /\ valueIndexes' = [i \in 1..Len(config.filters) |->
                            StorageGetValueIndex(query, config.filters[i])]
    /\ dpc' = IF FilterSlice(config.labels, valueIndexes') = Panic THEN "panic" ELSE "replay"
    /\ UNCHANGED <<store, clock, readerIndexes, query, printed, readers, seen, config,
                   sinks, written, ret, displayMode, keyboard, paused>>

\* GraphDisplay: valueIndex is store.GetValueIndex(query, filters[0]), or 0
\* without filters, and the sparkline is labelled labels[valueIndex].
GraphDisplayResolve ==
    /\ dpc = "resolve"
    /\ displayMode = "graph"
    /\ valueIndexes' = <<IF Len(config.filters) > 0
                          THEN StorageGetValueIndex(query, config.filters[1]) ELSE 0>>
    /\ dpc' = IF InRange(valueIndexes'[1], config.labels) THEN "replay" ELSE "panic"
    /\ UNCHANGED <<store, clock, readerIndexes, query, printed, readers, seen, config,
                   sinks, written, ret, displayMode, keyboard, paused>>

\* The display draws every Result of store.GetToIndex(query, reader); a
\* panic ends the program, whatever was drawn.
DisplayReplay ==
    /\ dpc = "replay"
    /\ displayMode # "raw"
    /\ LET shown == ShownAll(displayMode, StorageGetToIndex(query, readerIndexes[query]),
                             valueIndexes)
       IN  /\ printed' = IF Panics(shown) THEN printed ELSE printed \o shown
           /\ dpc' = IF Panics(shown) THEN "panic" ELSE "select"
    /\ UNCHANGED <<store, clock, readerIndexes, query, readers, seen, config, sinks,
                   written, ret, displayMode, valueIndexes, keyboard, paused>>

\* select, case <-interruptChan: the handler's send is received and the
\* display function returns.
DisplayInterrupt ==
    /\ dpc = "select"
    /\ keyboard.pc = "interrupt"
    /\ dpc' = "interrupted"
    /\ keyboard' = [keyboard EXCEPT !.pc = "cancel"]
    /\ UNCHANGED <<store, clock, readerIndexes, query, printed, readers, seen, config,
                   sinks, written, ret, displayMode, valueIndexes, paused>>

\* select, case <-pauseDisplayChan: the handler's send is received, the
\* display waits for the next one and the handler goes on to the query.
DisplayPause ==
    /\ dpc = "select"
    /\ keyboard.pc = "pauseDisplay"
    /\ dpc' = "paused"
    /\ keyboard' = [keyboard EXCEPT !.pc = "pauseQuery"]
    /\ UNCHANGED <<store, clock, readerIndexes, query, printed, readers, seen, config,
                   sinks, written, ret, displayMode, valueIndexes, paused>>

\* select, default: no send is waiting, the display goes on to GetResult.
DisplayDefault ==
    /\ dpc = "select"
    /\ keyboard.pc \notin {"interrupt", "pauseDisplay"}
    /\ dpc' = "next"
    /\ UNCHANGED <<store, clock, readerIndexes, query, printed, readers, seen, config,
                   sinks, written, ret, displayMode, valueIndexes, keyboard, paused>>

\* default: GetResult(query), suspended while the cursor is at the end of the
\* series, and the Result drawn.
DisplayNext ==
    /\ dpc = "next"
    /\ GetResultReady(query)
    /\ LET r == GetResult(query)
           shown == Shown(displayMode, r.result, valueIndexes)
       IN  /\ readerIndexes' = [readerIndexes EXCEPT ![query] = r.position]
           /\ printed' = IF shown = Panic THEN printed ELSE Append(printed, shown)
           /\ dpc' = IF shown = Panic THEN "panic" ELSE "select"
    /\ UNCHANGED <<store, clock, query, readers, seen, config, sinks, written, ret,
                   displayMode, valueIndexes, keyboard, paused>>

\* A slip in the pause: the second signal is taken by the select, as a pause.
DisplayUnpauseStaysPaused ==
    /\ dpc = "paused"
    /\ keyboard.pc = "pauseDisplay"
    /\ dpc' = "paused"
    /\ keyboard' = [keyboard EXCEPT !.pc = "pauseQuery"]
    /\ UNCHANGED <<store, clock, readerIndexes, query, printed, readers, seen, config,
                   sinks, written, ret, displayMode, valueIndexes, paused>>

\* <-pauseDisplayChan inside the pause case: the next send ends the pause.
DisplayUnpause ==
    /\ dpc = "paused"
    /\ keyboard.pc = "pauseDisplay"
    /\ dpc' = "select"
    /\ keyboard' = [keyboard EXCEPT !.pc = "pauseQuery"]
    /\ UNCHANGED <<store, clock, readerIndexes, query, printed, readers, seen, config,
                   sinks, written, ret, displayMode, valueIndexes, paused>>

\* keyboardTermdashHandler is called with a key, once the display is up and
\* the handler is free: Tab and n send on interruptChan, Space on
\* pauseDisplayChan.
KeyPress(key) ==
    /\ keyboard.pc = "idle"
    /\ keyboard.presses < MaxKeys
    /\ dpc \in {"replay", "select", "next", "paused"}
    /\ keyboard' = [pc |-> IF key = "Space" THEN "pauseDisplay" ELSE "interrupt",
                    key |-> key, presses |-> keyboard.presses + 1]
    /\ UNCHANGED <<store, clock, readerIndexes, query, dpc, printed, readers, seen,
                   config, sinks, written, ret, displayMode, valueIndexes, paused>>

\* Space, second send: pauseQueryChans[query] <- true is received by the
\* query's producer, which pauses, or resumes if it was paused.
QueryPause ==
    /\ keyboard.pc = "pauseQuery"
    /\ dpc # "panic"
    /\ paused' = [paused EXCEPT ![query] = ~@]
    /\ keyboard' = [Idle EXCEPT !.presses = keyboard.presses]
    /\ UNCHANGED <<store, clock, readerIndexes, query, dpc, printed, readers, seen,
                   config, sinks, written, ret, displayMode, valueIndexes>>

\* The handler sets advanceDisplayMode or advanceQuery and cancels; Results
\* takes the next display mode or query, puts the labels on the query and
\* starts the display again, with new widgets.
ResultsRestart ==
    /\ dpc = "interrupted"
    /\ keyboard.pc = "cancel"
    /\ displayMode' = IF keyboard.key = "Tab" THEN GetNextSliceRing(DisplayModes, displayMode)
                      ELSE displayMode
    /\ query' = IF keyboard.key = "n" THEN GetNextSliceRing(Queries, query) ELSE query
    /\ store' = IF Len(config.labels) > 0 THEN StoragePutLabels(query', config.labels) ELSE store
    /\ dpc' = "wait"
    /\ printed' = <<>>
    /\ valueIndexes' = <<>>
    /\ keyboard' = [Idle EXCEPT !.presses = keyboard.presses]
    /\ UNCHANGED <<clock, readerIndexes, readers, seen, config, sinks, written, ret, paused>>

LoopLabels == {<<>>, <<"a", "b", "a">>}
LoopFilters == {<<>>, <<"a">>, <<"c">>}

LoopInit ==
    /\ Start
    /\ config \in [labels : LoopLabels, filters : LoopFilters,
                    PushgatewayAddr : {""}, PrometheusExporterAddr : {""}]
    /\ displayMode \in Range(DisplayModes)

\* The steps of the display's own goroutine.
Display ==
    \/ DisplayWait
    \/ DisplayDec
    \/ StreamDisplayStart
    \/ TableDisplayResolve
    \/ GraphDisplayResolve
    \/ DisplayReplay
    \/ DisplayInterrupt
    \/ DisplayPause
    \/ DisplayDefault
    \/ DisplayNext
    \/ DisplayUnpause

\* A query's producer while the displays run: a panic in the display ends
\* the program, the producers with it.
Produce(q, result, time) == dpc # "panic" /\ AddResult(q, result, time)

LoopNext ==
    \/ \E q \in QuerySet, result \in Range(RawTexts) : Produce(q, result, clock + 1)
    \/ ResultsInit
    \/ ResultsRestart
    \/ DisplayWait
    \/ DisplayDec
    \/ StreamDisplayStart
    \/ TableDisplayResolve
    \/ GraphDisplayResolve
    \/ DisplayReplay
    \/ DisplayInterrupt
    \/ DisplayPause
    \/ DisplayDefault
    \/ DisplayNext
    \/ DisplayUnpause
    \/ \E key \in Keys : KeyPress(key)
    \/ QueryPause

LoopSpec == LoopInit /\ [][LoopNext]_vars

(***************************************************************************)
(* The pure functions called directly on inputs of every shape; a          *)
(* behaviour is one call.                                                  *)
(***************************************************************************)
\* Results of every shape: zero or stamped time, empty or not text, and
\* Values nil, allocated without elements, or holding a token.
SomeResults ==
    [Time : {ZeroTime, StartTime},
     Value : {<<>>, <<"x">>},
     Values : {NilValues, MakeValues(<<>>), MakeValues(<<[type |-> "int64", v |-> 1]>>)}]

\* The characters of the texts: a digit, a sign, a point, a letter, a space
\* and a vertical tab.
Alphabet == {"1", "-", ".", "x", " ", "VT"}
RECURSIVE TextsOfLen(_)
TextsOfLen(n) ==
    IF n = 0 THEN {<<>>} ELSE {Append(t, ch) : t \in TextsOfLen(n - 1), ch \in Alphabet}
Texts == UNION {TextsOfLen(n) : n \in 0..MaxLen}

\* The characters of the labels: a letter, a digit, an underscore and a
\* punctuation mark; and the inputs of TestNormalizeString.
LabelAlphabet == {"f", "1", "_", "!"}
RECURSIVE LabelsOfLen(_)
LabelsOfLen(n) ==
    IF n = 0 THEN {<<>>} ELSE {Append(t, ch) : t \in LabelsOfLen(n - 1), ch \in LabelAlphabet}
TestNormalizeString ==
    {[input |-> <<"t", "e", "s", "t">>, expected |-> <<"t", "e", "s", "t">>],
     [input |-> <<"f", "o", "o", "_", "_", "b", "a", "r">>,
      expected |-> <<"f", "o", "o", "_", "b", "a", "r">>],
     [input |-> <<"!", "f", "o", "o", "1", "?", ":", "b", "a", "r", "2", "!", ":">>,
      expected |-> <<"f", "o", "o", "1", "_", "b", "a", "r", "2">>]}
LabelTexts ==
    UNION {LabelsOfLen(n) : n \in 0..MaxLen} \cup {t.input : t \in TestNormalizeString}

\* normalizeString(input), and normalizeString of what it returned.
CallNormalizeString(input) ==
    /\ ret = NoCall
    /\ ret' = [op |-> "normalizeString", arg |-> input, result |-> normalizeString(input),
               again |-> normalizeString(normalizeString(input))]
    /\ UNCHANGED <<store, clock, readerIndexes, query, dpc, printed, readers, seen,
                   config, displayMode, valueIndexes, keyboard, paused, sinks,
                   written>>

\* Values of zero, one and two tokens, and the indexes to ask them for.
Token1 == [type |-> "string", v |-> <<"f">>]
Token2 == [type |-> "int64", v |-> 2]
SomeValues == {NilValues, MakeValues(<<>>), MakeValues(<<Token1>>), MakeValues(<<Token1, Token2>>)}
Indexes == NotFound..MaxLen
\* Label lists, with and without a repeated label, and the filters to look up.
LabelNames == {"a", "b"}
RECURSIVE LabelListsOfLen(_)
LabelListsOfLen(n) ==
    IF n = 0 THEN {<<>>} ELSE {Append(t, l) : t \in LabelListsOfLen(n - 1), l \in LabelNames}
LabelLists == UNION {LabelListsOfLen(n) : n \in 0..(MaxLen - 1)}
IndexLists == {<<>>} \cup {<<i>> : i \in NotFound..1} \cup {<<i, j>> : i, j \in NotFound..1}

\* v.Get(index)
CallValuesGet(v, index) ==
    /\ ret = NoCall
    /\ ret' = [op |-> "Get", arg |-> v, index |-> index, result |-> ValuesGet(v, index)]
    /\ UNCHANGED <<store, clock, readerIndexes, query, dpc, printed, readers, seen,
                   config, displayMode, valueIndexes, keyboard, paused, sinks,
                   written>>

\* result.Map(labels)
CallMap(r, labels) ==
    /\ ret = NoCall
    /\ ret' = [op |-> "Map", arg |-> r, labels |-> labels, result |-> Map(r, labels)]
    /\ UNCHANGED <<store, clock, readerIndexes, query, dpc, printed, readers, seen,
                   config, displayMode, valueIndexes, keyboard, paused, sinks,
                   written>>

\* FilterSlice(source, indexes)
CallFilterSlice(source, indexes) ==
    /\ ret = NoCall
    /\ ret' = [op |-> "FilterSlice", arg |-> source, indexes |-> indexes,
               result |-> FilterSlice(source, indexes)]
    /\ UNCHANGED <<store, clock, readerIndexes, query, dpc, printed, readers, seen,
                   config, displayMode, valueIndexes, keyboard, paused, sinks,
                   written>>

\* result.IsEmpty()
CallIsEmpty(r) ==
    /\ ret = NoCall
    /\ ret' = [op |-> "IsEmpty", arg |-> r, result |-> IsEmpty(r)]
    /\ UNCHANGED <<store, clock, readerIndexes, query, dpc, printed, readers, seen,
                   config, displayMode, valueIndexes, keyboard, paused, sinks,
                   written>>

\* TokenizeResult(text)
CallTokenizeResult(text) ==
    /\ ret = NoCall
    /\ ret' = [op |-> "TokenizeResult", arg |-> text, result |-> TokenizeResult(text)]
    /\ UNCHANGED <<store, clock, readerIndexes, query, dpc, printed, readers, seen,
                   config, displayMode, valueIndexes, keyboard, paused, sinks,
                   written>>

FunctionsNext ==
    \/ \E r \in SomeResults : CallIsEmpty(r)
    \/ \E text \in Texts : CallTokenizeResult(text)
    \/ \E input \in LabelTexts : CallNormalizeString(input)
    \/ \E v \in SomeValues, index \in Indexes : CallValuesGet(v, index)
    \/ \E v \in SomeValues, labels \in LabelLists :
          CallMap([Time |-> StartTime, Value |-> <<"f">>, Values |-> v], labels)
    \/ \E v \in SomeValues, indexes \in IndexLists : CallFilterSlice(v.elems, indexes)

FunctionsSpec == Init /\ [][FunctionsNext]_vars

(***************************************************************************)
(* Properties.                                                             *)
(***************************************************************************)
IsPrefix(s, t) == Len(s) <= Len(t) /\ \A i \in 1..Len(s) : s[i] = t[i]
Position(c) == readers[c].position
QueryOf(c) == readers[c].query
ClientSeries(c) == Series(readers[c].query)

\* C1: whatever the interleaving of the puts with the display that follows the
\* startup protocol (GetResultWait, Dec, GetToIndex, then GetResult for ever),
\* what it has printed (the replay, then the Next results) is a prefix of the
\* query's Results in append order, and once it tails it has printed exactly
\* the Results before its cursor: none skipped, none twice.
C1_ReplayThenTailIsPrefix ==
    /\ IsPrefix(printed, Series(query))
    /\ dpc = "tail" => Len(printed) = readerIndexes[query]

\* The display was behind by two puts and more and has caught up on part of them.
C1_Witness ==
    /\ dpc = "tail"
    /\ Len(printed) >= 2
    /\ Len(Series(query)) > Len(printed)

C3_NextReturnsResultAtPosition ==
    [][/\ RawDisplayNext =>
            LET p == readerIndexes[query]
            IN  /\ p < Len(Series(query))
                /\ printed' = Append(printed, Series(query)[p + 1])
                /\ readerIndexes' = [readerIndexes EXCEPT ![query] = p + 1]
                /\ store' = store
       /\ \A c \in Clients :
            ClientNext(c) =>
                /\ Position(c) < Len(ClientSeries(c))
                /\ readers'[c].position = Position(c) + 1
                /\ seen[c].mode # "none" =>
                      seen'[c].results = Append(seen[c].results, ClientSeries(c)[Position(c) + 1])
                /\ store' = store]_vars

\* The display and a client have both read with Next.
C3_Witness ==
    /\ dpc = "tail"
    /\ Len(printed) >= 2
    /\ \E c \in DOMAIN readers : seen[c].mode = "tail" /\ Len(seen[c].results) >= 2

\* C4: a display suspended in GetResult (Next) with its cursor at the end of
\* the series holds nothing back: every producer can still put and every
\* client can still read; as soon as the series is longer than its position
\* Next can return, it returns only then and with the Result at that position,
\* and under fair scheduling it does return: the display does not stay behind
\* the series for ever.
DisplaySuspended == dpc = "tail" /\ readerIndexes[query] = Len(Series(query))
DisplayBehind == dpc = "tail" /\ readerIndexes[query] < Len(Series(query))
C4_SuspendedNextIsResumed ==
    /\ [](DisplaySuspended =>
            /\ ~ENABLED RawDisplayNext
            /\ \A q \in QuerySet :
                  Len(Series(q)) < Bound(q) =>
                      ENABLED AddResult(q, Output(Len(Series(q)) + 1), clock + 1)
            /\ \A c \in DOMAIN readers :
                  /\ ENABLED ClientNextOrEmpty(c)
                  /\ Position(c) < Len(ClientSeries(c)) => ENABLED ClientNext(c))
    /\ [](DisplayBehind => ENABLED RawDisplayNext)
    /\ [][RawDisplayNext =>
            /\ DisplayBehind
            /\ printed' = Append(printed, Series(query)[readerIndexes[query] + 1])
            /\ readerIndexes'[query] = readerIndexes[query] + 1]_vars
    /\ []<>(~DisplayBehind)

\* The display was suspended at the end of a series, a put came, and its Next
\* returned the Result the put appended; it is suspended again.
C4_Witness ==
    /\ DisplaySuspended
    /\ Len(printed) >= 2
    /\ \E c \in DOMAIN readers : QueryOf(c) = query /\ Position(c) < Len(Series(query))

\* C5: NextOrEmpty never suspends.  With the cursor at the end of the series
\* it returns the empty Result (GetResultWait polls again, a client's view
\* gains nothing) and leaves position unchanged; with the cursor behind the
\* series it returns the Result at position and advances position by 1.
C5_NextOrEmptyNeverSuspends ==
    /\ [](/\ dpc = "wait" => ENABLED RawDisplayWait
          /\ \A c \in DOMAIN readers : ENABLED ClientNextOrEmpty(c))
    /\ [][/\ RawDisplayWait =>
                LET p == readerIndexes[query]
                IN  /\ store' = store
                    /\ IF p = Len(Series(query))
                       THEN readerIndexes' = readerIndexes /\ dpc' = "wait"
                       ELSE /\ readerIndexes' = [readerIndexes EXCEPT ![query] = p + 1]
                            /\ dpc' = "dec"
          /\ \A c \in Clients :
                ClientNextOrEmpty(c) =>
                    /\ store' = store
                    /\ IF Position(c) = Len(ClientSeries(c))
                       THEN readers' = readers /\ seen' = seen
                       ELSE /\ readers'[c].position = Position(c) + 1
                            /\ seen[c].mode # "none" =>
                                  seen'[c].results =
                                      Append(seen[c].results, ClientSeries(c)[Position(c) + 1])]_vars

\* GetResultWait has polled its way past the first Result, and a client at
\* the end of a series that is not empty holds what it read.
C5_Witness ==
    /\ dpc = "dec"
    /\ \E c \in DOMAIN readers :
          /\ seen[c].mode = "tail"
          /\ Position(c) = Len(ClientSeries(c))
          /\ Len(seen[c].results) >= 1

\* C6: GetToIndex returns exactly the Results at indexes 0 .. position-1 in
\* append order (nothing at position 0) and changes neither a cursor nor
\* the series.
C6_GetToIndexReturnsUpToPosition ==
    [][/\ RawDisplayReplay =>
            /\ printed' = printed \o SubSeq(Series(query), 1, readerIndexes[query])
            /\ readerIndexes' = readerIndexes /\ readers' = readers /\ store' = store
       /\ \A c \in Clients :
            ClientGetToIndex(c) =>
                /\ seen'[c].results = SubSeq(ClientSeries(c), 1, Position(c))
                /\ readerIndexes' = readerIndexes /\ readers' = readers /\ store' = store]_vars

\* The display has replayed, and a client's replay returned part of a series.
C6_Witness ==
    /\ dpc = "tail"
    /\ \E c \in DOMAIN readers :
          /\ seen[c].mode = "replay"
          /\ Len(seen[c].results) = Position(c)
          /\ Position(c) >= 1
          /\ Position(c) < Len(ClientSeries(c))

\* C7: Dec takes exactly 1 from a position above 0 and leaves a position of 0
\* at 0; it changes neither the series nor another cursor.
C7_DecFlooredAtZero ==
    [][/\ RawDisplayDec =>
            LET p == readerIndexes[query]
            IN  /\ readerIndexes' = [readerIndexes EXCEPT ![query] = IF p > 0 THEN p - 1 ELSE 0]
                /\ readers' = readers /\ store' = store
       /\ \A c \in Clients :
            ClientDec(c) =>
                /\ readers'[c].position = IF Position(c) > 0 THEN Position(c) - 1 ELSE 0
                /\ readers'[c].position >= 0
                /\ \A d \in DOMAIN readers : d # c => readers'[d] = readers[d]
                /\ readerIndexes' = readerIndexes /\ store' = store]_vars

\* The display has taken its synchronisation read back, and a client has
\* decremented a cursor that is at 0 while its series holds Results.
C7_Witness ==
    /\ dpc = "replay"
    /\ readerIndexes[query] = 0
    /\ \E c \in DOMAIN readers :
          seen[c].mode = "none" /\ Position(c) = 0 /\ Len(ClientSeries(c)) >= 1

\* C8: every cursor, the lib's and the clients', is within its query's series:
\* 0 <= position <= len(Results).
C8_PositionWithinSeries ==
    /\ \A q \in DOMAIN readerIndexes :
          0 <= readerIndexes[q] /\ readerIndexes[q] <= Len(Series(q))
    /\ \A c \in DOMAIN readers :
          0 <= Position(c) /\ Position(c) <= Len(ClientSeries(c))

\* Cursors at the end, in the middle and at the start of the same series.
C8_Witness ==
    /\ dpc = "tail"
    /\ readerIndexes[query] = Len(Series(query))
    /\ \E c, d \in DOMAIN readers :
          /\ QueryOf(c) = query /\ QueryOf(d) = query
          /\ Position(c) = 0 /\ seen[c].mode = "none"
          /\ Position(d) >= 1 /\ Position(d) < Len(Series(query))

\* C9: cursors are independent.  A read or a Dec through one cursor changes no
\* other cursor, and NewReaderIndex yields a cursor at position 0 without
\* touching the others.  (Each part reads "the others are left alone, or the
\* step is not that operation".)
OthersKept(c) ==
    /\ readerIndexes' = readerIndexes
    /\ \A d \in DOMAIN readers : d # c => (d \in DOMAIN readers' /\ readers'[d] = readers[d])
C9_CursorsIndependent ==
    [][/\ \A c \in Clients :
            \/ OthersKept(c) /\ DOMAIN readers' = DOMAIN readers
            \/ ~(ClientNext(c) \/ ClientNextOrEmpty(c) \/ ClientGetToIndex(c) \/ ClientDec(c))
       /\ \A c \in Clients, q \in QuerySet :
            \/ /\ OthersKept(c)
               /\ DOMAIN readers' = DOMAIN readers \cup {c}
               /\ readers'[c] = [query |-> q, position |-> 0]
            \/ ~ClientNewReaderIndex(c, q)
       /\ \/ /\ readers' = readers
             /\ \A q \in DOMAIN readerIndexes : q # query => readerIndexes'[q] = readerIndexes[q]
          \/ ~(RawDisplayWait \/ RawDisplayDec \/ RawDisplayReplay \/ RawDisplayNext)]_vars

\* Three cursors over the display's query, at three different positions.
C9_Witness ==
    /\ dpc = "tail"
    /\ \E c, d \in DOMAIN readers :
          /\ QueryOf(c) = query /\ QueryOf(d) = query
          /\ Position(c) # Position(d)
          /\ Position(c) # readerIndexes[query]
          /\ Position(d) # readerIndexes[query]

\* C10: two readers of one query that have only tailed with Next/NextOrEmpty
\* since NewReaderIndex have received the same Results in the same order as
\* far as both have read: one's sequence is a prefix of the other's.
TailOnly(c) == seen[c].mode \in {"new", "tail"}
C10_SameOrderForAllReaders ==
    \A c, d \in DOMAIN readers :
        (TailOnly(c) /\ TailOnly(d) /\ QueryOf(c) = QueryOf(d)) =>
            \/ IsPrefix(seen[c].results, seen[d].results)
            \/ IsPrefix(seen[d].results, seen[c].results)

\* Two tailing readers of one query, one further than the other, the nearer
\* one created after the first Result was appended.
C10_Witness ==
    \E c, d \in DOMAIN readers :
        /\ c # d /\ QueryOf(c) = QueryOf(d)
        /\ seen[c].mode = "tail" /\ seen[d].mode = "tail"
        /\ Len(seen[c].results) >= 2
        /\ Len(seen[d].results) = 1
        /\ Len(ClientSeries(c)) > Len(seen[c].results)

\* C11: put(raw, tokens...) appends exactly one Result.  The series grows by
\* one, the Results it held keep their places and contents, the new last
\* Result carries raw as its text and the tokens, in order, as its Values,
\* the Result returned is the one stored, and the labels are left alone.
C11_PutAppendsOne ==
    [][\A q \in QuerySet :
          store'[q] # store[q] =>
              LET old == store[q].Results
                  new == store'[q].Results
              IN  /\ ret'.op = "put"
                  /\ Len(new) = Len(old) + 1
                  /\ SubSeq(new, 1, Len(old)) = old
                  /\ new[Len(new)].Value = ret'.value
                  /\ new[Len(new)].Values.elems = ret'.tokens
                  /\ new[Len(new)] = ret'.result
                  /\ store'[q].Labels = store[q].Labels]_vars

\* A compound put onto a series that held a Result without tokens.
C11_Witness ==
    /\ ret.op = "put"
    /\ Len(ret.tokens) = 2
    /\ Len(Series(Queries[1])) >= 2
    /\ Series(Queries[1])[1].Values = NilValues

\* C12: Put never waits for a reader and touches no cursor.  Whatever cursors
\* exist and wherever they are, the next run's AddResult on a query can
\* happen (the model stops producing at its bound only), and a step that
\* changes a series changes no cursor.
C12_PutNeverBlocksOnReaders ==
    /\ [](\A q \in QuerySet :
            Len(Series(q)) < Bound(q) =>
                ENABLED AddResult(q, Output(Len(Series(q)) + 1), clock + 1))
    /\ [][store' # store => (readers' = readers /\ readerIndexes' = readerIndexes)]_vars

\* Three Results were put while the display's cursor and a client's were at 0
\* and another client had read to the end.
C12_Witness ==
    /\ dpc = "tail"
    /\ readerIndexes[query] = 0
    /\ Len(Series(query)) >= 3
    /\ \E c, d \in DOMAIN readers :
          /\ QueryOf(c) = query /\ Position(c) = 0
          /\ QueryOf(d) = query /\ Position(d) = Len(Series(query))

\* What the sink was offered for query q, in order.
OfferedTo(sink, q) ==
    LET w == SelectSeq(written[sink], LAMBDA e : e.query = q)
    IN  [i \in 1..Len(w) |-> w[i].result]
Last(seq) == seq[Len(seq)]

\* C13: a failing sink never fails or blocks Put.  Whichever sink writes fail,
\* AddResult can happen, every step that offers a sink a Result also appends
\* that Result to the series, the other registered sinks are offered it too,
\* and the display reads on as ever: a cursor behind the series can read and
\* what was printed is the start of the series.
C13_SinkFailureNeverFailsPut ==
    /\ [](/\ \A q \in QuerySet :
                Len(Series(q)) < Bound(q) =>
                    ENABLED AddResult(q, Output(Len(Series(q)) + 1), clock + 1)
          /\ DisplayBehind => ENABLED RawDisplayNext
          /\ IsPrefix(printed, Series(query)))
    /\ [][written' # written =>
            \E q \in QuerySet :
                /\ store'[q].Results # store[q].Results
                /\ store'[q].Results = Append(store[q].Results, Last(store'[q].Results))
                /\ \A sink \in Range(sinks) :
                      /\ Len(written'[sink]) = Len(written[sink]) + 1
                      /\ Last(written'[sink]).query = q
                      /\ Last(written'[sink]).result = Last(store'[q].Results)]_vars

\* The write of a Result failed at one sink and succeeded at the other, and
\* the display has printed that Result.
C13_Witness ==
    \E i \in 1..Len(written["pushgateway"]) :
        /\ ~written["pushgateway"][i].ok
        /\ i <= Len(written["prometheus"])
        /\ written["prometheus"][i].ok
        /\ written["prometheus"][i].result = written["pushgateway"][i].result
        /\ written["pushgateway"][i].query = query
        /\ printed # <<>>
        /\ Last(printed) = written["pushgateway"][i].result

\* C14: a registered sink is offered, inside Put, every Result put since its
\* registration, once and in append order per query: what it was offered for
\* a query is the end of that query's series, each put lengthens the log of
\* every registered sink by one, a sink never leaves the registry, a sink
\* that is not registered is offered nothing, and a step that changes no
\* series (a read, a Dec) writes to no sink.
C14_SinksOfferedEachPutOnce ==
    /\ [](\A sink \in SinkNames :
            /\ sink \notin Range(sinks) => written[sink] = <<>>
            /\ \A q \in QuerySet :
                  LET w == OfferedTo(sink, q)
                      n == Len(Series(q))
                  IN  Len(w) <= n /\ w = SubSeq(Series(q), n - Len(w) + 1, n))
    /\ [][/\ IsPrefix(sinks, sinks')
          /\ store' = store => written' = written
          /\ store' # store =>
                \A sink \in Range(sinks) : Len(written'[sink]) = Len(written[sink]) + 1]_vars

\* Both sinks were registered after the first put and have since been offered
\* Results of both queries; the display has read one of them.
C14_Witness ==
    /\ Len(sinks) = 2
    /\ dpc = "tail"
    /\ printed # <<>>
    /\ \A sink \in SinkNames :
          /\ OfferedTo(sink, Queries[1]) # <<>>
          /\ OfferedTo(sink, Queries[2]) # <<>>
          /\ Len(OfferedTo(sink, Queries[1])) < Len(Series(Queries[1]))

\* A series is in chronological order.
NonDecreasing(results) ==
    \A i, j \in 1..Len(results) : i < j => results[i].Time <= results[j].Time

\* C15: the Results of every series are non-decreasing by Time in append
\* order, the clock that put reads never going back (it may stand still
\* between two puts).
C15_ResultsNonDecreasingByTime ==
    \A q \in QuerySet : NonDecreasing(Series(q))

\* Three Results, two of them of the same instant and one later.
C15_Witness ==
    \E q \in QuerySet :
        /\ Len(Series(q)) >= 3
        /\ Series(q)[1].Time = Series(q)[2].Time
        /\ Series(q)[2].Time < Series(q)[3].Time

\* C16: once a series has labels, every Result appended to it has as many
\* Values as there are labels, whatever the number of tokens of the outputs.
C16_ValuesMatchLabels ==
    [][\A q \in QuerySet :
          (store[q].Labels # <<>> /\ store'[q].Results # store[q].Results) =>
              Len(Last(store'[q].Results).Values.elems) = Len(store[q].Labels)]_vars

\* C17: get(t) returns the first Result in append order whose Time is t, and
\* the empty Result when no stored Result has that Time (t between two stored
\* times, before them or after them); it leaves the series alone.
C17_GetFirstAtTimeOrEmpty ==
    /\ [](ret.op = "get" =>
            LET results == Series(Queries[1])
                at == {i \in 1..Len(results) : results[i].Time = ret.time}
            IN  IF at = {}
                THEN IsEmpty(ret.result)
                ELSE /\ ~IsEmpty(ret.result)
                     /\ ret.result = results[CHOOSE i \in at : \A j \in at : i <= j])
    /\ [][ret'.op = "get" => store' = store]_vars

\* get was asked for an instant two Results share, and the Results differ.
C17_Witness ==
    /\ ret.op = "get"
    /\ \E i, j \in 1..Len(Series(Queries[1])) :
          /\ i < j
          /\ Series(Queries[1])[i].Time = ret.time
          /\ Series(Queries[1])[j].Time = ret.time
          /\ Series(Queries[1])[i] # Series(Queries[1])[j]
          /\ ret.result = Series(Queries[1])[i]

\* The Results of a series whose Time is within [startTime, endTime], in order.
Within(results, startTime, endTime) ==
    SelectSeq(results, LAMBDA result : startTime <= result.Time /\ result.Time <= endTime)

\* C18: on a series in chronological order, getRange(start, end) returns
\* exactly the Results with start <= Time <= end, in append order: all of them
\* when the bounds reach beyond the stored times, those of the instant when
\* start = end, none when nothing matches; it leaves the series alone.
C18_GetRangeExactlyWithin ==
    /\ [](ret.op = "getRange" =>
            LET results == Series(Queries[1])
            IN  /\ ret.found = Within(results, ret.startTime, ret.endTime)
                /\ (results # <<>> /\ ret.startTime <= results[1].Time
                        /\ Last(results).Time <= ret.endTime) => ret.found = results
                /\ ret.startTime > ret.endTime => ret.found = <<>>)
    /\ [][ret'.op = "getRange" => store' = store]_vars

\* getRange returned the two Results in the middle of a series of four, or
\* the last two of three, leaving out an earlier one.
C18_Witness ==
    /\ ret.op = "getRange"
    /\ Len(ret.found) = 2
    /\ ret.found[1].Time < ret.found[2].Time
    /\ ret.startTime < ret.found[1].Time
    /\ ret.found[2].Time = ret.endTime
    /\ Series(Queries[1])[1].Time < ret.startTime

\* C19: IsEmpty holds of a Result exactly when its Time is the zero time, its
\* text is empty and its Values hold no token.
C19_EmptyIffNoTimeTextTokens ==
    ret.op = "IsEmpty" =>
        (ret.result <=>
            (ret.arg.Time = ZeroTime /\ ret.arg.Value = <<>> /\ ret.arg.Values.elems = <<>>))

\* The maximal runs of characters that are not whitespace (unicode.IsSpace).
RECURSIVE NonSpaceRuns(_)
NonSpaceRuns(text) ==
    IF text = <<>> THEN <<>>
    ELSE IF IsSpace(Head(text)) THEN NonSpaceRuns(Tail(text))
    ELSE LET n == IdentLen(text)
         IN  <<SubSeq(text, 1, n)>> \o NonSpaceRuns(SubSeq(text, n + 1, Len(text)))

\* C20: TokenizeResult(raw) returns one token per maximal run of characters
\* of raw that are not whitespace, in order, each an integer if the run
\* parses as one, else a float if it parses as one, else the run as text;
\* nothing for an empty or all-whitespace raw.
C20_OneTokenPerNonSpaceRun ==
    ret.op = "TokenizeResult" =>
        /\ Len(ret.result.elems) = Len(NonSpaceRuns(ret.arg))
        /\ \A i \in 1..Len(NonSpaceRuns(ret.arg)) :
              ret.result.elems[i] = Classify(NonSpaceRuns(ret.arg)[i])

\* C21: normalizeString is idempotent: normalizing what it returned returns
\* the same again.
C21_NormalizeIdempotent ==
    ret.op = "normalizeString" => ret.again = ret.result

\* normalizeString was given a text that it changed in all three ways:
\* a replaced character, a collapsed run and a trimmed end.
C21_Witness ==
    /\ ret.op = "normalizeString"
    /\ Len(ret.arg) = 13
    /\ ret.result # ret.arg
    /\ ret.again = ret.result

\* The letters and digits of a text, in order.
AlnumOf(s) == SelectSeq(s, LAMBDA ch : ch \in Alnum)
\* The position in s of its k-th letter or digit.
RECURSIVE AlnumPos(_, _)
AlnumPos(s, k) ==
    LET first == CHOOSE i \in 1..Len(s) : s[i] \in Alnum /\ \A j \in 1..(i - 1) : s[j] \notin Alnum
    IN  IF k = 1 THEN first ELSE first + AlnumPos(SubSeq(s, first + 1, Len(s)), k - 1)

\* C22: the output of normalizeString has only characters of [A-Za-z0-9_],
\* no two adjacent "_", no "_" at either end, the input's letters and digits
\* in order, and one "_" exactly between those that something other than a
\* letter or digit separated in the input; the three inputs of the test give
\* what the test expects.
C22_NormalizeOutput ==
    ret.op = "normalizeString" =>
        /\ \A i \in 1..Len(ret.result) : ret.result[i] \in WordChars
        /\ \A i \in 1..(Len(ret.result) - 1) : ~(ret.result[i] = "_" /\ ret.result[i + 1] = "_")
        /\ ret.result # <<>> => (ret.result[1] # "_" /\ ret.result[Len(ret.result)] # "_")
        /\ AlnumOf(ret.result) = AlnumOf(ret.arg)
        /\ \A k \in 1..(Len(AlnumOf(ret.arg)) - 1) :
              (AlnumPos(ret.result, k + 1) = AlnumPos(ret.result, k) + 1)
                  <=> (AlnumPos(ret.arg, k + 1) = AlnumPos(ret.arg, k) + 1)
        /\ \A t \in TestNormalizeString : ret.arg = t.input => ret.result = t.expected

\* normalizeString replaced a punctuation mark, collapsed it with the "_"
\* after it and trimmed the result off the front of a letter.
C22_Witness ==
    /\ ret.op = "normalizeString"
    /\ Len(ret.arg) = 3
    /\ ret.arg[1] = "!"
    /\ ret.arg[2] = "_"
    /\ ret.arg[3] \in Alnum
    /\ ret.result = <<ret.arg[3]>>

\* C26: Values.Get(index) returns the token at index when index is within
\* the sequence, and the absent marker, without a fault, for every index at
\* or beyond the length, on empty Values too.
C26_GetTokenOrAbsent ==
    (ret.op = "Get" /\ ret.index >= 0) =>
        /\ ret.index < Len(ret.arg.elems) => ret.result = Returned(ret.arg.elems[ret.index + 1])
        /\ ret.index >= Len(ret.arg.elems) => ret.result = Absent

\* Get was asked for the token just beyond the end of Values that hold
\* tokens.
C26_Witness ==
    /\ ret.op = "Get"
    /\ ret.arg.elems # <<>>
    /\ ret.index = Len(ret.arg.elems)
    /\ ret.result = Absent

\* C29 as stated: for labels at least as many as the Values, Map associates
\* labels[i] with Values[i] for every index i of Values, and has no other key.
C29_MapLabelToValue ==
    (ret.op = "Map" /\ Len(ret.labels) >= Len(ret.arg.Values.elems)) =>
        /\ ret.result.kind = "value"
        /\ DOMAIN ret.result.v = {ret.labels[i] : i \in 1..Len(ret.arg.Values.elems)}
        /\ \A i \in 1..Len(ret.arg.Values.elems) :
              ret.result.v[ret.labels[i]] = ret.arg.Values.elems[i]

\* C29, amended: for labels at least as many as the Values, the keys of the
\* map are exactly the labels[i] for the indexes i of Values, and each key
\* has the value Values[i] of the last such i that carries it: labels[i] has
\* Values[i] for every i when those labels are distinct.
C29_MapLastLabelWins ==
    (ret.op = "Map" /\ Len(ret.labels) >= Len(ret.arg.Values.elems)) =>
        /\ ret.result.kind = "value"
        /\ DOMAIN ret.result.v = {ret.labels[i] : i \in 1..Len(ret.arg.Values.elems)}
        /\ \A i \in 1..Len(ret.arg.Values.elems) :
              (\A j \in (i + 1)..Len(ret.arg.Values.elems) : ret.labels[j] # ret.labels[i])
                  => ret.result.v[ret.labels[i]] = ret.arg.Values.elems[i]

\* Map was given two values and the same label twice.
C29_Witness ==
    /\ ret.op = "Map"
    /\ Len(ret.arg.Values.elems) = 2
    /\ Len(ret.labels) = 2
    /\ ret.labels[1] = ret.labels[2]
    /\ ret.result.kind = "value"

Resolved(mode, filters) ==
    IF mode = "table" THEN filters
    ELSE IF Len(filters) > 0 THEN <<filters[1]>> ELSE <<>>

ResolveStep == dpc = "resolve" /\ dpc' # "resolve" /\ displayMode \in {"table", "graph"}

\* C23: GetValueIndex(query, label) returns the position of the first
\* occurrence of label in the query's Labels when it is there and the
\* not-found sentinel when it is not; the lookup is an integer in every case
\* (no fault) and leaves the query's Labels and Results as they were.
C23_GetValueIndexFirstOrNotFound ==
    [][ResolveStep =>
        /\ store' = store
        /\ \A i \in 1..Len(Resolved(displayMode, config.filters)) :
              LET label == Resolved(displayMode, config.filters)[i]
                  labels == store[query].Labels
                  index == valueIndexes'[i]
              IN  IF \E j \in 1..Len(labels) : labels[j] = label
                  THEN /\ InRange(index, labels)
                       /\ At(labels, index) = label
                       /\ \A j \in 0..(index - 1) : At(labels, j) # label
                  ELSE index = NotFound]_vars

\* A lookup of a label that is there twice, and one of a label that is not.
C23_Witness ==
    /\ displayMode = "table"
    /\ dpc \in {"replay", "panic"}
    /\ \/ config.filters = <<"a">> /\ store[query].Labels = <<"a", "b", "a">> /\ valueIndexes = <<0>>
       \/ config.filters = <<"c">> /\ store[query].Labels = <<"a", "b", "a">> /\ valueIndexes = <<NotFound>>

\* C24: when a filter name is not among the query's labels, no display uses
\* the not-found sentinel as an index: the failed lookup is not fatal (the
\* display does not panic on it).
C24_LookupFailureNotFatal == NotFound \in Range(valueIndexes) => dpc # "panic"

(***************************************************************************)
(* Pause                                                                   *)
(***************************************************************************)
PutEnabled(q) == ENABLED Produce(q, Output(Len(Series(q)) + 1), clock + 1)

PauseSignalReceived == keyboard.pc = "pauseDisplay" /\ keyboard'.pc = "pauseQuery"

\* C30: pause is a two-signal toggle.  The display pauses only by receiving
\* a signal in its select; once paused it reads nothing, draws nothing and
\* keeps its position and its query until the next signal; that signal ends
\* the pause, leaving the display at its select with the same position, and
\* is not taken as a new pause.
C30_PauseIsTwoSignalToggle ==
    /\ [][dpc = "paused" =>
            /\ readerIndexes' = readerIndexes
            /\ printed' = printed
            /\ query' = query /\ displayMode' = displayMode
            /\ dpc' = IF PauseSignalReceived THEN "select" ELSE "paused"]_vars
    /\ [][dpc # "paused" /\ dpc' = "paused" => dpc = "select" /\ PauseSignalReceived]_vars
    /\ [][PauseSignalReceived => dpc \in {"select", "paused"} /\ dpc' # dpc]_vars

\* The second Space has just ended the pause: the display is back at its
\* select, the producer still holds the first Space's pause.
C30_Witness ==
    /\ dpc = "select"
    /\ keyboard = [pc |-> "pauseQuery", key |-> "Space", presses |-> 2]
    /\ paused[query]

(***************************************************************************)
(* Interrupts                                                              *)
(***************************************************************************)
\* C28: an interrupt raised at any time is received by the display loop
\* without a further Put on the query: while the handler's send on
\* interruptChan is waiting, the display can take a step of its own.
C28_InterruptReceivedWithoutPut ==
    keyboard.pc = "interrupt" /\ dpc # "panic" => ENABLED Display

(***************************************************************************)
(* The displays without filters                                            *)
(***************************************************************************)
\* The display has resolved its filters and is drawing.
Drawing == dpc \in {"replay", "select", "next", "paused", "interrupted"}

\* C31: when no filter is provided, the table and graph displays use value
\* index zero: the display comes up, its value indexes are the single index
\* 0, and what it draws for every Result is that Result's first value.
C31_NoFilterShowsFirstValue ==
    config.filters = <<>> /\ displayMode \in {"table", "graph"} =>
        /\ dpc # "panic"
        /\ Drawing => valueIndexes = <<0>>
        /\ \A i \in 1..Len(printed) :
              printed[i] = Shown(displayMode, Series(query)[i], <<0>>)

(***************************************************************************)
(* The startup synchronization of the displays                             *)
(***************************************************************************)
\* C32: GetResultWait waits only for the first Result to appear: whenever a
\* display, started or restarted, is in its wait and the query's series
\* holds at least one Result, the wait's next poll finds a Result and
\* returns, without a further Put.
C32_WaitReturnsOnceSeriesHasResult ==
    dpc = "wait" /\ Len(Series(query)) > 0 => ~IsEmpty(GetResultWaitRound(query).result)

\* C33: GetResultWait followed by Dec has no net effect on the cursor.  The
\* wait moves the cursor only when it returns, by the one Result it found;
\* Dec steps it back by one; nothing else moves it in between.  The display
\* then draws exactly the Results before the cursor and tails from the
\* cursor: at every moment of a display session what it has drawn is the
\* series up to its cursor, each Result once and in order.
C33_WaitThenDecKeepsCursor ==
    /\ [][dpc = "wait" =>
            /\ dpc' \in {"wait", "dec"}
            /\ readerIndexes'[query] =
                  readerIndexes[query] + (IF dpc' = "dec" THEN 1 ELSE 0)]_vars
    /\ [][dpc = "dec" =>
            /\ dpc' \in {"dec", "resolve"}
            /\ readerIndexes'[query] =
                  readerIndexes[query] - (IF dpc' = "resolve" THEN 1 ELSE 0)]_vars
    /\ [](dpc \in {"wait", "dec", "resolve", "replay"} => printed = <<>>)
    /\ [](dpc \in {"select", "next", "paused", "interrupted"} =>
            printed = ShownAll(displayMode,
                               SubSeq(Series(query), 1, readerIndexes[query]), valueIndexes))

\* A display restarted by Tab on the same query, whose cursor was at a
\* position p >= 1, has been through the wait and Dec.
C33_Witness ==
    /\ dpc = "resolve"
    /\ keyboard = [pc |-> "idle", key |-> "none", presses |-> 1]
    /\ query = Queries[1]
    /\ readerIndexes[query] >= 1

=============================================================================
